---------------------------- MODULE Spec2Model ----------------------------
(***************************************************************************)
(* A model of the vigi Telegram bot: the user directory (database.py),     *)
(* the regular-user funnel and the update dispatch of main() (bot.py), and *)
(* the admin console with its broadcast loop (admin.py).                   *)
(*                                                                         *)
(* Modelling assumptions, stated once:                                     *)
(*  - private chats: the conversation key (chat id, user id) is the user;  *)
(*  - updates are handled one at a time, in arrival order (the Application *)
(*    is built without concurrent_updates);                                *)
(*  - replies to the interacting user succeed; the platform calls whose    *)
(*    failure the code handles (broadcast sends, join approval, welcome    *)
(*    message, membership query) may fail;                                 *)
(*  - datetime.now() is strictly increasing from one read to the next.     *)
(***************************************************************************)
EXTENDS Integers, Sequences, FiniteSets, TLC

(***************************************************************************)
(* Bounds of the model.                                                    *)
(***************************************************************************)
\* the largest value the clock may reach: bounds the number of directory writes
MaxClock == 4
\* the same, when the directory API is driven directly
MaxDirClock == 5
\* ids 1..MaxDirId are used when the directory API is driven directly
MaxDirId == 2
\* the largest directory a broadcast is run over
MaxRecipients == 3
\* the largest directory the join date figures are computed over
MaxStatsUsers == 5

(***************************************************************************)
(* Python's None, and ConversationHandler.END.                             *)
(***************************************************************************)
None == "None"
END == -1

(***************************************************************************)
(* Conversation states: two enumerations, both range(4).                   *)
(***************************************************************************)
MAIN_MENU == 0
CHECKING_SUBSCRIPTION == 1
SENDING_ID == 2
GENERATING_CODE == 3

ADMIN_MENU == 0
SENDING_MESSAGE == 1
CONFIRMING_MESSAGE == 2
VIEWING_STATS == 3

(***************************************************************************)
(* Configuration (config.json is read once at import; its values are not   *)
(* part of the sources, so they are represented by small fixed sets).      *)
(***************************************************************************)
\* the users that send updates; user 1 is the only admin
Users == {1, 2}
ADMIN_IDS == {1}
\* display names a platform user may carry (never empty on the platform)
Names == {"Ann", "Bob"}
Statuses == {"active", "channel_joined", "id_verified"}

is_admin(user_id) == user_id \in ADMIN_IDS

(***************************************************************************)
(* The user directory: the rows of table users, in insertion order.        *)
(***************************************************************************)
VARIABLES
    auto_approve, \* config['features']['auto_approve_channel_join'], fixed at start
    table,      \* Seq of rows [telegram_id, fullname, status, created_at, updated_at]
    clock,      \* the value of the last datetime.now() read
    adminConv,  \* admin_conv_handler's conversations: user -> state or None
    userConv,   \* conv_handler's conversations: user -> state or None
    user_data,  \* context.user_data: user -> [selected_app, broadcast_message]
    bc,         \* the locals of the running (or last) confirm_and_send_message
    last,       \* the last operation: whose, which callback, the state it returned
                \* (returned: it has), the result of a directory call or of the
                \* membership gate (is_subscribed), what was emitted
    tasks       \* the handlers (or directory calls) in flight when their directory
                \* calls interleave: the position and the locals of each

vars == <<auto_approve, table, clock, adminConv, userConv, user_data, bc, last, tasks>>

\* no handler is in flight: every update is handled to its end before the next
NoTasks == [kind |-> "none"]

\* User.__init__ : both timestamps default to a read of the clock
User(telegram_id, fullname, status, now) ==
    [telegram_id |-> telegram_id, fullname |-> fullname, status |-> status,
     created_at |-> now + 1, updated_at |-> now + 2]

RowsOf(t, telegram_id) == {i \in DOMAIN t : t[i].telegram_id = telegram_id}

\* Database.get_user: the row of the id, or None
get_user(t, telegram_id) ==
    IF RowsOf(t, telegram_id) = {} THEN None
    ELSE t[CHOOSE i \in RowsOf(t, telegram_id) : \A j \in RowsOf(t, telegram_id) : i <= j]

\* Database.user_exists: get_user(...) is not None
user_exists(t, telegram_id) == RowsOf(t, telegram_id) # {}

\* a create_user that does not enforce the UNIQUE constraint
create_user_NoUnique(t, user) == [ret |-> TRUE, table |-> Append(t, user)]

\* Database.create_user: INSERT; the UNIQUE constraint on telegram_id raises
\* IntegrityError, which is caught and reported as False
create_user(t, user) ==
    IF \E i \in DOMAIN t : t[i].telegram_id = user.telegram_id
    THEN [ret |-> FALSE, table |-> t]
    ELSE [ret |-> TRUE, table |-> Append(t, user)]

\* an update_user that writes the whole record, absent fields as defaults
update_user_Overwrite(t, telegram_id, fullname, status, now) ==
    IF fullname = None /\ status = None
    THEN [ret |-> FALSE, table |-> t, reads |-> 0]
    ELSE [ret |-> RowsOf(t, telegram_id) # {},
          table |-> [i \in DOMAIN t |->
                        IF t[i].telegram_id = telegram_id
                        THEN [t[i] EXCEPT !.fullname = IF fullname # None THEN fullname ELSE "Unknown",
                                          !.status = IF status # None THEN status ELSE "active",
                                          !.updated_at = now + 1]
                        ELSE t[i]],
          reads |-> 1]

\* an update_user that inserts the record when the id is absent
update_user_Upsert(t, telegram_id, fullname, status, now) ==
    IF fullname = None /\ status = None
    THEN [ret |-> FALSE, table |-> t, reads |-> 0]
    ELSE IF RowsOf(t, telegram_id) = {}
    THEN [ret |-> TRUE,
          table |-> Append(t, [telegram_id |-> telegram_id,
                               fullname |-> IF fullname # None THEN fullname ELSE "Unknown",
                               status |-> IF status # None THEN status ELSE "active",
                               created_at |-> now + 1, updated_at |-> now + 1]),
          reads |-> 1]
    ELSE [ret |-> TRUE,
          table |-> [i \in DOMAIN t |->
                        IF t[i].telegram_id = telegram_id
                        THEN [t[i] EXCEPT !.fullname = IF fullname # None THEN fullname ELSE @,
                                          !.status = IF status # None THEN status ELSE @,
                                          !.updated_at = now + 1]
                        ELSE t[i]],
          reads |-> 1]

\* Database.update_user: UPDATE users SET <the supplied fields>, updated_at = now
\* WHERE telegram_id = ?; False when no field is supplied or no row matched.
\* reads: the number of clock reads made
update_user(t, telegram_id, fullname, status, now) ==
    IF fullname = None /\ status = None
    THEN [ret |-> FALSE, table |-> t, reads |-> 0]
    ELSE [ret |-> RowsOf(t, telegram_id) # {},
          table |-> [i \in DOMAIN t |->
                        IF t[i].telegram_id = telegram_id
                        THEN [t[i] EXCEPT !.fullname = IF fullname # None THEN fullname ELSE @,
                                          !.status = IF status # None THEN status ELSE @,
                                          !.updated_at = now + 1]
                        ELSE t[i]],
          reads |-> 1]

\* the rows of every other id, in table order
RECURSIVE SelectRows(_, _)
SelectRows(t, telegram_id) ==
    IF t = <<>> THEN <<>>
    ELSE IF Head(t).telegram_id = telegram_id THEN SelectRows(Tail(t), telegram_id)
    ELSE <<Head(t)>> \o SelectRows(Tail(t), telegram_id)

\* Database.delete_user: DELETE FROM users WHERE telegram_id = ?
delete_user(t, telegram_id) ==
    [ret |-> RowsOf(t, telegram_id) # {}, table |-> SelectRows(t, telegram_id)]

\* Database.get_all_users: every row, in table order
get_all_users(t) == t


(***************************************************************************)
(* Texts.  A text is a sequence of characters; a character is named by a   *)
(* short string ("ar3" is ARABIC-INDIC DIGIT THREE, "sup2" is SUPERSCRIPT  *)
(* TWO: str.isdigit() accepts both).                                       *)
(***************************************************************************)
IdLen == 10

AsciiDigits == {"0", "1", "2", "3", "4", "5", "6", "7", "8", "9"}
UnicodeDigits == {"ar3", "sup2"}
BadChars == {"a", " ", "ar3", "sup2"}

\* str.isdigit(): non-empty, and every character is a digit of some script
isdigit(text) == Len(text) > 0 /\ \A i \in DOMAIN text : text[i] \in AsciiDigits \cup UnicodeDigits

\* the labels and catalog of config.json
BackLabel == <<"b", "a", "c", "k">>
HelpLabel == <<"h", "e", "l", "p">>
GenerateLabel == <<"g", "e", "n">>
Apps == <<  <<"A", "p", "p", "X">>, <<"A", "p", "p", "Y">>  >>
AppNames == {Apps[i] : i \in DOMAIN Apps}
NoApp == <<>>

IdDigits == <<"1", "2", "3", "4", "5", "6", "7", "8", "9", "0">>
\* the digits 1234567890... cut to n characters, with character c at place p (p = 0: nowhere)
TextOf(n, p, c) == [i \in 1..n |-> IF i = p THEN c ELSE IdDigits[((i - 1) % 10) + 1]]
IdTexts == {TextOf(n, p, c) : n \in {IdLen - 1, IdLen, IdLen + 1}, p \in {0, IdLen}, c \in BadChars}
Texts == AppNames \cup {BackLabel, HelpLabel, GenerateLabel} \cup IdTexts
\* the texts an admin sends: fewer, the admin console reads none of them
AdminTexts == {Apps[1], BackLabel, TextOf(IdLen, 0, "a"), TextOf(IdLen, IdLen, "a")}

(***************************************************************************)
(* Updates.  A message is described by the attributes it carries; the      *)
(* platform sets document on an animation and location on a venue.         *)
(***************************************************************************)
MessageShapes ==
    {{"photo"}, {"document"}, {"animation", "document"}, {"sticker"},
     {"venue", "location"}, {}}

CommandEv(cmd) == [type |-> "command", name |-> cmd, attrs |-> {"text"}, text |-> <<>>]
CallbackEv(data) == [type |-> "callback", name |-> data, attrs |-> {}, text |-> <<>>]
MessageEv(attrs, text) == [type |-> "message", name |-> "", attrs |-> attrs, text |-> text]

Commands == {"start", "cancel", "help"}
CallbackTokens ==
    {"check_subscription", "admin_send_message", "admin_view_stats", "admin_back_to_panel",
     "admin_close", "confirm_send_message", "admin_cancel_send", "back_to_main"}

\* the outcome of one get_chat_member query
\* ("restricted" stands for every status other than left and kicked)
MemberOutcomes == {"member", "restricted", "left", "kicked", "error"}
Channels == {1, 2}

(***************************************************************************)
(* What a handler does: the state it returns, the directory after it, the  *)
(* clock reads it made, the sender's user_data after it, what it emitted.  *)
(***************************************************************************)
H(ret, t, reads, ud, out) == [ret |-> ret, table |-> t, reads |-> reads, ud |-> ud, out |-> out]

NoUserData == [keys |-> {}, selected_app |-> NoApp, broadcast_message |-> {}]

\* admin.admin_panel
admin_panel(u, t, ud) ==
    IF ~is_admin(u) THEN H(END, t, 0, ud, <<"denied">>)
    ELSE H(ADMIN_MENU, t, 0, ud, <<"admin_menu">>)

\* bot.start
start(u, name, t, now, ud) ==
    IF is_admin(u) THEN admin_panel(u, t, ud)
    ELSE IF ~user_exists(t, u)
    THEN H(MAIN_MENU, create_user(t, User(u, name, "active", now)).table, 2, ud, <<"start">>)
    ELSE LET r == update_user(t, u, name, None, now)
         IN  H(MAIN_MENU, r.table, r.reads, ud, <<"start">>)

\* a check_user_subscription that takes a failed query for a membership
RECURSIVE check_user_subscription_ErrorPasses(_)
check_user_subscription_ErrorPasses(outcomes) ==
    IF outcomes = <<>> THEN TRUE
    ELSE IF Head(outcomes) = "left" \/ Head(outcomes) = "kicked" THEN FALSE
    ELSE check_user_subscription_ErrorPasses(Tail(outcomes))

\* TelegramBot.check_user_subscription over the outcomes of the channel queries,
\* in channel order: a failing query is caught and gives False
RECURSIVE check_user_subscription(_)
check_user_subscription(outcomes) ==
    IF outcomes = <<>> THEN TRUE
    ELSE IF Head(outcomes) = "error" THEN FALSE
    ELSE IF Head(outcomes) = "left" \/ Head(outcomes) = "kicked" THEN FALSE
    ELSE check_user_subscription(Tail(outcomes))

\* a check_subscription that takes the answer of the membership gate
check_subscription_Gated(outcomes, t, ud) ==
    LET is_subscribed == check_user_subscription(outcomes)
    IN  IF is_subscribed
        THEN H(CHECKING_SUBSCRIPTION, t, 0, ud, <<"catalog">>)
        ELSE H(MAIN_MENU, t, 0, ud, <<"not_subscribed">>)

\* bot.check_subscription
check_subscription(outcomes, t, ud) ==
    LET is_subscribed == check_user_subscription(outcomes)
    IN  IF is_subscribed \/ TRUE
        THEN H(CHECKING_SUBSCRIPTION, t, 0, ud, <<"catalog">>)
        ELSE H(MAIN_MENU, t, 0, ud, <<"not_subscribed">>)

\* bot.app_selected
app_selected(text, t, ud) ==
    IF text \notin AppNames
    THEN IF text = HelpLabel
         THEN H(CHECKING_SUBSCRIPTION, t, 0, ud, <<"help", "catalog">>)
         ELSE H(CHECKING_SUBSCRIPTION, t, 0, ud, <<>>)
    ELSE H(SENDING_ID, t, 0,
           [ud EXCEPT !.keys = @ \cup {"selected_app"}, !.selected_app = text],
           <<"app_info", "send_id">>)

\* a send_id_message that tests the identifier before the back label
send_id_message_IdFirst(u, text, t, now, ud) ==
    IF Len(text) # IdLen \/ ~isdigit(text) THEN H(SENDING_ID, t, 0, ud, <<"invalid_id">>)
    ELSE IF text = BackLabel THEN H(CHECKING_SUBSCRIPTION, t, 0, ud, <<"catalog">>)
    ELSE LET r == update_user(t, u, None, "id_verified", now)
         IN  H(GENERATING_CODE, r.table, r.reads, ud, <<"congratulation">>)

\* bot.send_id_message
send_id_message(u, text, t, now, ud) ==
    IF text = BackLabel THEN H(CHECKING_SUBSCRIPTION, t, 0, ud, <<"catalog">>)
    ELSE IF Len(text) # IdLen \/ ~isdigit(text) THEN H(SENDING_ID, t, 0, ud, <<"invalid_id">>)
    ELSE LET r == update_user(t, u, None, "id_verified", now)
         IN  H(GENERATING_CODE, r.table, r.reads, ud, <<"congratulation">>)

\* the 5 fixed prefixes of generate_code
Numbers == <<"1", "2", "3", "4", "5">>

\* bot.generate_code; lucky_number is random.randint(0, 4)
generate_code(text, lucky_number, t, ud) ==
    IF text = BackLabel THEN H(CHECKING_SUBSCRIPTION, t, 0, ud, <<"catalog">>)
    ELSE H(GENERATING_CODE, t, 0, ud, <<"result", Numbers[lucky_number + 1]>>)

\* bot.cancel
cancel(t, ud) == H(END, t, 0, ud, <<"cancelled">>)


(***************************************************************************)
(* The admin console.                                                      *)
(***************************************************************************)
\* an admin_send_message_start without the admin check
admin_send_message_start_NoGate(u, t, ud) == H(SENDING_MESSAGE, t, 0, ud, <<"prompt_message">>)

\* admin.admin_send_message_start
admin_send_message_start(u, t, ud) ==
    IF ~is_admin(u) THEN H(ADMIN_MENU, t, 0, ud, <<"denied">>)
    ELSE H(SENDING_MESSAGE, t, 0, ud, <<"prompt_message">>)

\* an admin_message_input that asks for the confirmation without keeping the
\* message
admin_message_input_NoStore(u, attrs, t, ud) ==
    IF ~is_admin(u) THEN H(SENDING_MESSAGE, t, 0, ud, <<"denied">>)
    ELSE H(CONFIRMING_MESSAGE, t, 0, ud, <<"confirm_prompt">>)

\* admin.admin_message_input: the message is stored as it came
admin_message_input(u, attrs, t, ud) ==
    IF ~is_admin(u) THEN H(SENDING_MESSAGE, t, 0, ud, <<"denied">>)
    ELSE H(CONFIRMING_MESSAGE, t, 0,
           [ud EXCEPT !.keys = @ \cup {"broadcast_message"}, !.broadcast_message = attrs],
           <<"confirm_prompt">>)

\* admin.admin_view_stats
admin_view_stats(u, t, ud) ==
    IF ~is_admin(u) THEN H(ADMIN_MENU, t, 0, ud, <<"denied">>)
    ELSE H(VIEWING_STATS, t, 0, ud, <<"stats">>)

\* Wall-clock time is counted in hours.  timedelta.days of now - created_at:
\* the whole days of the difference, rounded down
HoursPerDay == 24
days(now, created_at) == (now - created_at) \div HoursPerDay

\* the widest day difference of the week figures
WeekDays == 7

\* admin_view_stats, the join date block: today_users, week_users,
\* today_channel, week_channel; the block is left out when the directory is empty
join_date_stats(all_users, now) ==
    IF all_users = <<>> THEN <<>>
    ELSE << Cardinality({i \in DOMAIN all_users : days(now, all_users[i].created_at) = 0}),
            Cardinality({i \in DOMAIN all_users : days(now, all_users[i].created_at) <= WeekDays}),
            Cardinality({i \in DOMAIN all_users :
                            /\ all_users[i].status = "channel_joined"
                            /\ days(now, all_users[i].created_at) = 0}),
            Cardinality({i \in DOMAIN all_users :
                            /\ all_users[i].status = "channel_joined"
                            /\ days(now, all_users[i].created_at) <= WeekDays}) >>

\* admin.admin_back_to_panel
admin_back_to_panel(u, t, ud) == H(ADMIN_MENU, t, 0, ud, <<"admin_menu">>)

\* admin.admin_cancel_send
admin_cancel_send(u, t, ud) == admin_back_to_panel(u, t, ud)

\* an admin_close that goes back to the menu
admin_close_ToMenu(u, t, ud) == H(ADMIN_MENU, t, 0, ud, <<"closed">>)

\* admin.admin_close
admin_close(u, t, ud) == H(END, t, 0, ud, <<"closed">>)

\* the order of the attribute tests in the broadcast loop
DispatchOrder ==
    <<"text", "photo", "video", "document", "audio", "animation", "voice", "video_note",
      "sticker", "location", "contact", "venue", "poll", "dice", "game">>

\* the send primitive the loop body picks for a message: the first attribute of
\* the chain that the message carries, "none" when it carries none of them
SendPrimitive(attrs) ==
    IF \E i \in DOMAIN DispatchOrder : DispatchOrder[i] \in attrs
    THEN DispatchOrder[CHOOSE i \in DOMAIN DispatchOrder :
                           /\ DispatchOrder[i] \in attrs
                           /\ \A j \in 1..(i - 1) : DispatchOrder[j] \notin attrs]
    ELSE "none"

BcIdle ==
    [pc |-> "idle", admin |-> 0, message |-> {}, all_users |-> <<>>, i |-> 0,
     success_count |-> 0, failed_count |-> 0, sent |-> <<>>]

\* a confirm_and_send_message without the early return on an empty directory
confirm_entry_NoEmptyCheck(u, t, ud) ==
    IF ~is_admin(u) THEN "denied"
    ELSE IF "broadcast_message" \notin ud.keys THEN "not_found"
    ELSE "loop"

\* confirm_and_send_message up to the loop: the early returns, or "loop"
confirm_entry(u, t, ud) ==
    IF ~is_admin(u) THEN "denied"
    ELSE IF "broadcast_message" \notin ud.keys THEN "not_found"
    ELSE IF get_all_users(t) = <<>> THEN "no_users"
    ELSE "loop"

\* a loop body whose failure ends the batch
loop_body_Abort(b, ok) ==
    LET user == b.all_users[b.i]
        prim == SendPrimitive(b.message)
    IN  IF prim = "none"
        THEN [b EXCEPT !.failed_count = @ + 1, !.i = @ + 1]
        ELSE IF ok
        THEN [b EXCEPT !.sent = Append(@, [to |-> user, primitive |-> prim, ok |-> TRUE]),
                       !.success_count = @ + 1, !.i = @ + 1]
        ELSE [b EXCEPT !.sent = Append(@, [to |-> user, primitive |-> prim, ok |-> FALSE]),
                       !.failed_count = @ + 1, !.i = Len(b.all_users) + 1]

\* a loop body that sends an unsupported message as text
loop_body_SendAnyway(b, ok) ==
    LET user == b.all_users[b.i]
        prim == IF SendPrimitive(b.message) = "none" THEN "text" ELSE SendPrimitive(b.message)
    IN  IF ok
        THEN [b EXCEPT !.sent = Append(@, [to |-> user, primitive |-> prim, ok |-> TRUE]),
                       !.success_count = @ + 1, !.i = @ + 1]
        ELSE [b EXCEPT !.sent = Append(@, [to |-> user, primitive |-> prim, ok |-> FALSE]),
                       !.failed_count = @ + 1, !.i = @ + 1]

\* a loop body that tries a recipient again after a failed send
loop_body_Retry(b, ok) ==
    LET user == b.all_users[b.i]
        prim == SendPrimitive(b.message)
    IN  IF prim = "none"
        THEN [b EXCEPT !.failed_count = @ + 1, !.i = @ + 1]
        ELSE IF ok
        THEN [b EXCEPT !.sent = Append(@, [to |-> user, primitive |-> prim, ok |-> TRUE]),
                       !.success_count = @ + 1, !.i = @ + 1]
        ELSE [b EXCEPT !.sent = Append(@, [to |-> user, primitive |-> prim, ok |-> FALSE]),
                       !.failed_count = @ + 1]

\* one iteration of the loop of confirm_and_send_message, for recipient
\* all_users[i]; ok: whether the platform accepts the send
loop_body(b, ok) ==
    LET user == b.all_users[b.i]
        prim == SendPrimitive(b.message)
    IN  IF prim = "none"
        THEN [b EXCEPT !.failed_count = @ + 1, !.i = @ + 1]
        ELSE IF ok
        THEN [b EXCEPT !.sent = Append(@, [to |-> user, primitive |-> prim, ok |-> TRUE]),
                       !.success_count = @ + 1, !.i = @ + 1]
        ELSE [b EXCEPT !.sent = Append(@, [to |-> user, primitive |-> prim, ok |-> FALSE]),
                       !.failed_count = @ + 1, !.i = @ + 1]

(***************************************************************************)
(* The handlers registered in main(), and ConversationHandler's choice of  *)
(* one: with no conversation for the key only the entry points are tried;  *)
(* otherwise the handlers of the current state, in order, then the         *)
(* fallbacks.  The name of the chosen callback, or "none".                 *)
(***************************************************************************)
IsCommand(ev, cmd) == ev.type = "command" /\ ev.name = cmd
IsCallback(ev, data) == ev.type = "callback" /\ ev.name = data
\* filters.TEXT & ~filters.COMMAND
IsText(ev) == ev.type = "message" /\ "text" \in ev.attrs
\* the filter of the SENDING_MESSAGE MessageHandler
CaptureKinds ==
    {"text", "photo", "video", "audio", "animation", "voice", "video_note", "location",
     "contact", "venue", "poll", "game"}
IsCapturable(ev) == ev.type = "message" /\ ev.attrs \cap CaptureKinds # {}

\* conv_handler
UserCheck(state, ev) ==
    IF state = END
    THEN IF IsCommand(ev, "start") THEN "start" ELSE "none"
    ELSE IF state = MAIN_MENU /\ IsCallback(ev, "check_subscription") THEN "check_subscription"
    ELSE IF state = CHECKING_SUBSCRIPTION /\ IsText(ev) THEN "app_selected"
    ELSE IF state = SENDING_ID /\ IsText(ev) THEN "send_id_message"
    ELSE IF state = GENERATING_CODE /\ IsText(ev) THEN "generate_code"
    ELSE IF IsCommand(ev, "cancel") THEN "cancel"
    ELSE "none"

\* admin_conv_handler
AdminCheck(state, ev) ==
    IF state = END
    THEN IF IsCommand(ev, "start") THEN "start" ELSE "none"
    ELSE IF state = ADMIN_MENU /\ IsCallback(ev, "admin_send_message") THEN "admin_send_message_start"
    ELSE IF state = ADMIN_MENU /\ IsCallback(ev, "admin_view_stats") THEN "admin_view_stats"
    ELSE IF state = ADMIN_MENU /\ IsCallback(ev, "admin_back_to_panel") THEN "admin_back_to_panel"
    ELSE IF state = ADMIN_MENU /\ IsCallback(ev, "admin_close") THEN "admin_close"
    ELSE IF state = SENDING_MESSAGE /\ IsCapturable(ev) THEN "admin_message_input"
    ELSE IF state = SENDING_MESSAGE /\ IsCommand(ev, "cancel") THEN "admin_back_to_panel"
    ELSE IF state = CONFIRMING_MESSAGE /\ IsCallback(ev, "confirm_send_message") THEN "confirm_and_send_message"
    ELSE IF state = CONFIRMING_MESSAGE /\ IsCallback(ev, "admin_cancel_send") THEN "admin_cancel_send"
    ELSE IF state = VIEWING_STATS /\ IsCallback(ev, "admin_back_to_panel") THEN "admin_back_to_panel"
    ELSE IF state = VIEWING_STATS /\ IsCallback(ev, "admin_close") THEN "admin_close"
    ELSE IF IsCommand(ev, "cancel") THEN "cancel"
    ELSE "none"

\* application.add_handler(admin_conv_handler); application.add_handler(conv_handler):
\* the update goes to the first of the two that accepts it
Route(aState, uState, ev) ==
    IF AdminCheck(aState, ev) # "none" THEN [conv |-> "admin", callback |-> AdminCheck(aState, ev)]
    ELSE IF UserCheck(uState, ev) # "none" THEN [conv |-> "user", callback |-> UserCheck(uState, ev)]
    ELSE [conv |-> "none", callback |-> "none"]

\* the callback applied to the update (every callback but the broadcast loop)
Run(callback, u, ev, name, outcomes, lucky_number, t, now, ud) ==
    CASE callback = "start" -> start(u, name, t, now, ud)
      [] callback = "cancel" -> cancel(t, ud)
      [] callback = "check_subscription" -> check_subscription(outcomes, t, ud)
      [] callback = "app_selected" -> app_selected(ev.text, t, ud)
      [] callback = "send_id_message" -> send_id_message(u, ev.text, t, now, ud)
      [] callback = "generate_code" -> generate_code(ev.text, lucky_number, t, ud)
      [] callback = "admin_send_message_start" -> admin_send_message_start(u, t, ud)
      [] callback = "admin_message_input" -> admin_message_input(u, ev.attrs, t, ud)
      [] callback = "admin_view_stats" -> admin_view_stats(u, t, ud)
      [] callback = "admin_back_to_panel" -> admin_back_to_panel(u, t, ud)
      [] callback = "admin_cancel_send" -> admin_cancel_send(u, t, ud)
      [] callback = "admin_close" -> admin_close(u, t, ud)
      [] callback = "confirm_and_send_message" ->
            H(ADMIN_MENU, t, 0, ud, <<confirm_entry(u, t, ud)>>)

\* ConversationHandler's bookkeeping of the state a callback returned
Conversation(conv, u, ret) == [conv EXCEPT ![u] = ret]

NoLast == [user |-> 0, conv |-> "none", callback |-> "none",
           ret |-> END, returned |-> TRUE, result |-> TRUE, out |-> <<>>]

\* one update from user u goes through the application
Deliver(u, ev, name, outcomes, lucky_number) ==
    LET route == Route(adminConv[u], userConv[u], ev)
        r == Run(route.callback, u, ev, name, outcomes, lucky_number, table, clock, user_data[u])
    IN  /\ bc.pc # "sending"
        /\ UNCHANGED <<auto_approve, tasks>>
        /\ IF route.conv = "none"
           THEN /\ last' = [NoLast EXCEPT !.user = u]
                /\ bc' = BcIdle
                /\ UNCHANGED <<table, clock, adminConv, userConv, user_data>>
           ELSE IF route.callback = "confirm_and_send_message"
                   /\ confirm_entry(u, table, user_data[u]) = "loop"
           THEN /\ bc' = [BcIdle EXCEPT !.pc = "sending", !.admin = u,
                                        !.message = user_data[u].broadcast_message,
                                        !.all_users = [i \in DOMAIN get_all_users(table) |->
                                                          get_all_users(table)[i].telegram_id],
                                        !.i = 1]
                /\ last' = [user |-> u, conv |-> route.conv,
                            callback |-> route.callback, ret |-> END, returned |-> FALSE,
                            result |-> TRUE, out |-> <<"progress">>]
                /\ UNCHANGED <<table, clock, adminConv, userConv, user_data>>
           ELSE /\ clock + r.reads <= MaxClock
                /\ table' = r.table
                /\ clock' = clock + r.reads
                /\ user_data' = [user_data EXCEPT ![u] = r.ud]
                /\ adminConv' = IF route.conv = "admin"
                                THEN Conversation(adminConv, u, r.ret) ELSE adminConv
                /\ userConv' = IF route.conv = "user"
                               THEN Conversation(userConv, u, r.ret) ELSE userConv
                /\ bc' = BcIdle
                /\ last' = [user |-> u, conv |-> route.conv,
                            callback |-> route.callback, ret |-> r.ret, returned |-> TRUE,
                            result |-> IF route.callback = "check_subscription"
                                       THEN check_user_subscription(outcomes) ELSE TRUE,
                            out |-> r.out]

AnyName == CHOOSE n \in Names : TRUE

CommandUpdate(u, cmd, name) == Deliver(u, CommandEv(cmd), name, <<>>, 0)

CallbackUpdate(u, data, outcomes) ==
    Deliver(u, CallbackEv(data), AnyName, outcomes, 0)

TextUpdate(u, text, lucky_number) ==
    Deliver(u, MessageEv({"text"}, text), AnyName, <<>>, lucky_number)

MediaUpdate(u, attrs) ==
    Deliver(u, MessageEv(attrs, <<>>), AnyName, <<>>, 0)

\* the loop of confirm_and_send_message, one recipient at a time
BroadcastSend(ok) ==
    /\ bc.pc = "sending"
    /\ bc.i <= Len(bc.all_users)
    /\ SendPrimitive(bc.message) = "none" => ok = FALSE
    /\ bc' = loop_body(bc, ok)
    /\ UNCHANGED <<tasks, auto_approve, table, clock, adminConv, userConv, user_data, last>>

\* after the loop: the summary, and the state returned
BroadcastFinish ==
    /\ bc.pc = "sending"
    /\ bc.i > Len(bc.all_users)
    /\ bc' = [bc EXCEPT !.pc = "done"]
    /\ adminConv' = Conversation(adminConv, bc.admin, ADMIN_MENU)
    /\ last' = [last EXCEPT !.ret = ADMIN_MENU, !.returned = TRUE,
                            !.out = <<"progress", "summary">>]
    /\ UNCHANGED <<tasks, auto_approve, table, clock, userConv, user_data>>

\* a handle_chat_join_request that replaces the record of a known requester
handle_chat_join_request_Recreate(u, name, approve_ok, welcome_ok, flag, t, now) ==
    IF ~flag THEN [table |-> t, reads |-> 0, out |-> <<>>]
    ELSE IF ~approve_ok THEN [table |-> t, reads |-> 0, out |-> <<>>]
    ELSE LET w == IF welcome_ok THEN <<"approved", "welcome">> ELSE <<"approved">>
         IN  [table |-> create_user(delete_user(t, u).table,
                                    User(u, name, "channel_joined", now)).table,
              reads |-> 2, out |-> w]

\* a handle_chat_join_request whose directory write is lost when the welcome
\* message fails
handle_chat_join_request_Rollback(u, name, approve_ok, welcome_ok, flag, t, now) ==
    IF ~flag THEN [table |-> t, reads |-> 0, out |-> <<>>]
    ELSE IF ~approve_ok THEN [table |-> t, reads |-> 0, out |-> <<>>]
    ELSE IF ~welcome_ok THEN [table |-> t, reads |-> 0, out |-> <<"approved">>]
    ELSE IF ~user_exists(t, u)
    THEN [table |-> create_user(t, User(u, name, "channel_joined", now)).table,
          reads |-> 2, out |-> <<"approved", "welcome">>]
    ELSE LET r == update_user(t, u, None, "channel_joined", now)
         IN  [table |-> r.table, reads |-> r.reads, out |-> <<"approved", "welcome">>]

\* a handle_chat_join_request that writes the directory before the approval
handle_chat_join_request_WriteFirst(u, name, approve_ok, welcome_ok, flag, t, now) ==
    IF ~flag THEN [table |-> t, reads |-> 0, out |-> <<>>]
    ELSE LET w == IF ~approve_ok THEN <<>>
                  ELSE IF welcome_ok THEN <<"approved", "welcome">> ELSE <<"approved">>
         IN  IF ~user_exists(t, u)
             THEN [table |-> create_user(t, User(u, name, "channel_joined", now)).table,
                   reads |-> 2, out |-> w]
             ELSE LET r == update_user(t, u, None, "channel_joined", now)
                  IN  [table |-> r.table, reads |-> r.reads, out |-> w]

\* bot.handle_chat_join_request for a request of user u
handle_chat_join_request(u, name, approve_ok, welcome_ok, flag, t, now) ==
    IF ~flag THEN [table |-> t, reads |-> 0, out |-> <<>>]
    ELSE IF ~approve_ok THEN [table |-> t, reads |-> 0, out |-> <<>>]
    ELSE LET w == IF welcome_ok THEN <<"approved", "welcome">> ELSE <<"approved">>
         IN  IF ~user_exists(t, u)
             THEN [table |-> create_user(t, User(u, name, "channel_joined", now)).table,
                   reads |-> 2, out |-> w]
             ELSE LET r == update_user(t, u, None, "channel_joined", now)
                  IN  [table |-> r.table, reads |-> r.reads, out |-> w]

JoinRequest(u, name, approve_ok, welcome_ok) ==
    LET r == handle_chat_join_request(u, name, approve_ok, welcome_ok, auto_approve, table, clock)
    IN  /\ bc.pc # "sending"
        /\ clock + r.reads <= MaxClock
        /\ table' = r.table
        /\ clock' = clock + r.reads
        /\ bc' = BcIdle
        /\ last' = [NoLast EXCEPT !.user = u,
                                  !.callback = "handle_chat_join_request", !.out = r.out]
        /\ UNCHANGED <<tasks, auto_approve, adminConv, userConv, user_data>>

Outcomes == [Channels -> MemberOutcomes]
AnyOutcomes == [c \in Channels |-> "member"]

Init ==
    /\ auto_approve \in BOOLEAN
    /\ table = <<>>
    /\ clock = 0
    /\ adminConv = [u \in Users |-> END]
    /\ userConv = [u \in Users |-> END]
    /\ user_data = [u \in Users |-> NoUserData]
    /\ bc = BcIdle
    /\ last = NoLast
    /\ tasks = NoTasks

\* the updates user u may send: commands, button presses, texts (out of texts),
\* other messages
ChatUpdate(u, texts) ==
    \/ \E cmd \in Commands, name \in Names :
          /\ cmd # "start" => name = AnyName
          /\ CommandUpdate(u, cmd, name)
    \/ \E data \in CallbackTokens, outcomes \in Outcomes :
          /\ data # "check_subscription" => outcomes = AnyOutcomes
          /\ CallbackUpdate(u, data, <<outcomes[1], outcomes[2]>>)
    \/ \E text \in texts, lucky_number \in 0..4 :
          /\ userConv[u] # GENERATING_CODE => lucky_number = 0
          /\ TextUpdate(u, text, lucky_number)
    \/ \E attrs \in MessageShapes : MediaUpdate(u, attrs)

\* a join request of any user arrives
JoinUpdate ==
    \E u \in Users, name \in Names, approve_ok \in BOOLEAN, welcome_ok \in BOOLEAN :
        /\ ~approve_ok => welcome_ok
        /\ JoinRequest(u, name, approve_ok, welcome_ok)

\* the regular users send updates
Next ==
    \/ \E u \in Users \ ADMIN_IDS : ChatUpdate(u, Texts)
    \/ JoinUpdate

\* a join request of any user arrives, under one display name (the admin
\* console reads no name)
JoinUpdateAnyName ==
    \E u \in Users, approve_ok \in BOOLEAN, welcome_ok \in BOOLEAN :
        /\ ~approve_ok => welcome_ok
        /\ JoinRequest(u, AnyName, approve_ok, welcome_ok)

\* the admins send updates
NextAdmin ==
    \/ \E u \in ADMIN_IDS : ChatUpdate(u, AdminTexts)
    \/ JoinUpdateAnyName
    \/ \E ok \in BOOLEAN : BroadcastSend(ok)
    \/ BroadcastFinish

Spec == Init /\ [][Next]_vars

InitAdmin == Init /\ auto_approve = TRUE

SpecAdmin == InitAdmin /\ [][NextAdmin]_vars


(***************************************************************************)
(* The directory API driven directly: create, update and delete with any   *)
(* arguments.                                                              *)
(***************************************************************************)
DirCreate(id, name, status) ==
    LET r == create_user(table, User(id, name, status, clock))
    IN  /\ clock + 2 <= MaxDirClock
        /\ table' = r.table
        /\ clock' = clock + 2
        /\ last' = [NoLast EXCEPT !.user = id, !.callback = "create_user",
                                  !.result = r.ret, !.out = <<name, status>>]
        /\ UNCHANGED <<tasks, auto_approve, adminConv, userConv, user_data, bc>>

DirUpdate(id, fullname, status) ==
    LET r == update_user(table, id, fullname, status, clock)
    IN  /\ clock + r.reads <= MaxDirClock
        /\ table' = r.table
        /\ clock' = clock + r.reads
        /\ last' = [NoLast EXCEPT !.user = id, !.callback = "update_user",
                                  !.result = r.ret, !.out = <<fullname, status>>]
        /\ UNCHANGED <<tasks, auto_approve, adminConv, userConv, user_data, bc>>

DirDelete(id) ==
    LET r == delete_user(table, id)
    IN  /\ table' = r.table
        /\ last' = [NoLast EXCEPT !.user = id, !.callback = "delete_user",
                                  !.result = r.ret]
        /\ UNCHANGED <<tasks, auto_approve, clock, adminConv, userConv, user_data, bc>>

DirIds == 1..MaxDirId

NextDir ==
    \/ \E id \in DirIds, name \in Names, status \in Statuses : DirCreate(id, name, status)
    \/ \E id \in DirIds, fullname \in Names \cup {None}, status \in Statuses \cup {None} :
          DirUpdate(id, fullname, status)
    \/ \E id \in DirIds : DirDelete(id)

SpecDir == InitAdmin /\ [][NextDir]_vars

(***************************************************************************)
(* The broadcast alone: an admin in CONFIRMING_MESSAGE holding a message   *)
(* of any shape, over any directory of up to MaxRecipients records.        *)
(***************************************************************************)
\* every message shape: one attribute of the loop's chain, the two pairs the
\* platform sets together, and a message with none of the attributes
AllShapes ==
    {{DispatchOrder[i]} : i \in DOMAIN DispatchOrder}
        \cup {{"animation", "document"}, {"venue", "location"}, {}}

RecipientIds == 1..MaxRecipients
\* the directories of distinct ids, in any order
Directories ==
    {t \in UNION {[1..n -> RecipientIds] : n \in 0..MaxRecipients} :
        \A i, j \in DOMAIN t : i # j => t[i] # t[j]}

TheAdmin == CHOOSE a \in ADMIN_IDS : TRUE

InitBroadcast ==
    /\ auto_approve = TRUE
    /\ \E d \in Directories :
          table = [i \in DOMAIN d |->
                      [telegram_id |-> d[i], fullname |-> AnyName, status |-> "active",
                       created_at |-> 0, updated_at |-> 0]]
    /\ clock = 0
    /\ adminConv = [u \in Users |-> IF u = TheAdmin THEN CONFIRMING_MESSAGE ELSE END]
    /\ userConv = [u \in Users |-> END]
    /\ \E m \in AllShapes :
          user_data = [u \in Users |->
                          IF u = TheAdmin
                          THEN [NoUserData EXCEPT !.keys = {"broadcast_message"},
                                                  !.broadcast_message = m]
                          ELSE NoUserData]
    /\ bc = BcIdle
    /\ last = NoLast
    /\ tasks = NoTasks

NextBroadcast ==
    \/ CallbackUpdate(TheAdmin, "confirm_send_message", <<>>)
    \/ \E ok \in BOOLEAN : BroadcastSend(ok)
    \/ BroadcastFinish

SpecBroadcast == InitBroadcast /\ [][NextBroadcast]_vars

(***************************************************************************)
(* The broadcast with the directory written under it: every call of        *)
(* database.py opens its own connection to the file, so a record may be    *)
(* added while the loop waits for a send (the dispatcher of this build     *)
(* handles no update of its own until the loop has returned) or after it.  *)
(***************************************************************************)
\* the id of the record added after the snapshot
NewId == MaxRecipients + 1

\* an approved join request of a user without a record is written to the file
SnapshotJoin ==
    LET r == handle_chat_join_request(NewId, AnyName, TRUE, TRUE, auto_approve, table, clock)
    IN  /\ bc.pc \in {"sending", "done"}
        /\ ~user_exists(table, NewId)
        /\ clock + r.reads <= MaxClock
        /\ table' = r.table
        /\ clock' = clock + r.reads
        /\ UNCHANGED <<tasks, auto_approve, adminConv, userConv, user_data, bc, last>>

NextSnapshot ==
    \/ CallbackUpdate(TheAdmin, "confirm_send_message", <<>>)
    \/ \E ok \in BOOLEAN : BroadcastSend(ok)
    \/ BroadcastFinish
    \/ SnapshotJoin

SpecSnapshot == InitBroadcast /\ [][NextSnapshot]_vars

(***************************************************************************)
(* The admin console alone: an admin with no session sends commands,       *)
(* button presses and messages of every shape, over a directory of up to   *)
(* MaxRecipients records.                                                  *)
(***************************************************************************)
InitConsole ==
    /\ auto_approve = TRUE
    /\ \E n \in 0..MaxRecipients :
          table = [i \in 1..n |->
                      [telegram_id |-> i, fullname |-> AnyName, status |-> "active",
                       created_at |-> 0, updated_at |-> 0]]
    /\ clock = 0
    /\ adminConv = [u \in Users |-> END]
    /\ userConv = [u \in Users |-> END]
    /\ user_data = [u \in Users |-> NoUserData]
    /\ bc = BcIdle
    /\ last = NoLast
    /\ tasks = NoTasks

NextConsole ==
    \/ \E cmd \in Commands : CommandUpdate(TheAdmin, cmd, AnyName)
    \/ \E data \in CallbackTokens :
          CallbackUpdate(TheAdmin, data, <<AnyOutcomes[1], AnyOutcomes[2]>>)
    \/ \E attrs \in AllShapes : MediaUpdate(TheAdmin, attrs)
    \/ \E ok \in BOOLEAN : BroadcastSend(ok)
    \/ BroadcastFinish

SpecConsole == InitConsole /\ [][NextConsole]_vars

(***************************************************************************)
(* The stats view alone: an admin in ADMIN_MENU opens it, at different     *)
(* hours of one day, over a directory of up to MaxStatsUsers records       *)
(* created at hours of that day and of days before it.                     *)
(***************************************************************************)
\* creation times: day 0 at 00:00; day 3 at 06:00; day 9 at 18:00; day 10 at
\* 00:00 and at 06:00
CreationHours == {0, 78, 234, 240, 246}
\* the times the stats are viewed at: day 10 at 12:00 and at 18:00
NowHours == {252, 258}

InitStats ==
    /\ auto_approve = TRUE
    /\ \E n \in 0..MaxStatsUsers :
          \E created \in [1..n -> CreationHours], status \in [1..n -> {"active", "channel_joined"}] :
             /\ \A i \in 1..(n - 1) : created[i] <= created[i + 1]
             /\ table = [i \in 1..n |->
                            [telegram_id |-> i, fullname |-> AnyName, status |-> status[i],
                             created_at |-> created[i], updated_at |-> created[i]]]
    /\ clock \in NowHours
    /\ adminConv = [u \in Users |-> IF u = TheAdmin THEN ADMIN_MENU ELSE END]
    /\ userConv = [u \in Users |-> END]
    /\ user_data = [u \in Users |-> NoUserData]
    /\ bc = BcIdle
    /\ last = NoLast
    /\ tasks = NoTasks

\* the admin presses the stats button at time clock
ViewStats ==
    LET r == admin_view_stats(TheAdmin, table, user_data[TheAdmin])
    IN  /\ AdminCheck(adminConv[TheAdmin], CallbackEv("admin_view_stats")) = "admin_view_stats"
        /\ adminConv' = Conversation(adminConv, TheAdmin, r.ret)
        /\ last' = [NoLast EXCEPT !.user = TheAdmin, !.conv = "admin",
                                  !.callback = "admin_view_stats", !.ret = r.ret,
                                  !.out = join_date_stats(get_all_users(table), clock)]
        /\ UNCHANGED <<tasks, auto_approve, table, clock, userConv, user_data, bc>>

\* the admin presses the back button of the stats view
StatsBack ==
    LET r == admin_back_to_panel(TheAdmin, table, user_data[TheAdmin])
    IN  /\ AdminCheck(adminConv[TheAdmin], CallbackEv("admin_back_to_panel")) = "admin_back_to_panel"
        /\ adminConv' = Conversation(adminConv, TheAdmin, r.ret)
        /\ last' = [NoLast EXCEPT !.user = TheAdmin, !.conv = "admin",
                                  !.callback = "admin_back_to_panel", !.ret = r.ret,
                                  !.out = r.out]
        /\ UNCHANGED <<tasks, auto_approve, table, clock, userConv, user_data, bc>>

\* time passes, to a later hour
TimePasses ==
    /\ \E now \in NowHours : now > clock /\ clock' = now
    /\ UNCHANGED <<tasks, auto_approve, table, adminConv, userConv, user_data, bc, last>>

NextStats == ViewStats \/ StatsBack \/ TimePasses

SpecStats == InitStats /\ [][NextStats]_vars

(***************************************************************************)
(* Handlers whose directory calls interleave.  The Application of main()   *)
(* handles one update at a time, and no handler awaits between its         *)
(* existence check and its write; the interleaving below is the one two    *)
(* processes on the same database file (or a threaded dispatcher) produce: *)
(* each directory call is atomic, and nothing is held between two calls.   *)
(* Two races: /start against a join request of the same user, and two      *)
(* update_user calls on the same id.                                       *)
(***************************************************************************)
\* the user whose handlers race
RaceUser == CHOOSE u \in Users : ~is_admin(u)

\* the directories the race starts from: with or without a record of another
\* user, with or without a record of the user
RaceTables ==
    {(IF other THEN <<User(TheAdmin, AnyName, "active", 0)>> ELSE <<>>) \o own :
        other \in BOOLEAN,
        own \in {<<>>} \cup {<<User(RaceUser, n, st, 2)>> : n \in Names, st \in Statuses}}

\* the /start handler and the join-request handler, before their first step
StartJoinTasks(t, name1, name2) ==
    [kind |-> "start_join", user |-> RaceUser, t0 |-> t,
     start |-> [pc |-> "user_exists", name |-> name1, exists |-> FALSE, result |-> TRUE],
     join |-> [pc |-> "approve", name |-> name2, exists |-> FALSE, approved |-> FALSE,
               result |-> TRUE]]

\* two update_user calls, one with only fullname, one with only status
UpdateTasks(t, fullname, status) ==
    [kind |-> "updates", user |-> RaceUser, t0 |-> t,
     calls |-> <<[pc |-> "now", fullname |-> fullname, status |-> None, now |-> 0,
                  result |-> FALSE],
                 [pc |-> "now", fullname |-> None, status |-> status, now |-> 0,
                  result |-> FALSE]>>,
     order |-> <<>>]

InitRace ==
    /\ auto_approve \in BOOLEAN
    /\ table \in RaceTables
    /\ clock = 4
    /\ adminConv = [u \in Users |-> END]
    /\ userConv = [u \in Users |-> END]
    /\ user_data = [u \in Users |-> NoUserData]
    /\ bc = BcIdle
    /\ last = NoLast
    /\ \/ \E name1 \in Names, name2 \in Names : tasks = StartJoinTasks(table, name1, name2)
       \/ \E fullname \in Names, status \in Statuses : tasks = UpdateTasks(table, fullname, status)

RaceFrame == UNCHANGED <<auto_approve, userConv, user_data, bc, last>>

\* start: db.user_exists(user.id)
StartExists ==
    /\ tasks.kind = "start_join"
    /\ tasks.start.pc = "user_exists"
    /\ tasks' = [tasks EXCEPT !.start.exists = user_exists(table, tasks.user),
                              !.start.pc = "write"]
    /\ UNCHANGED <<table, clock, adminConv>>
    /\ RaceFrame

\* start: db.create_user(new_user) or db.update_user(user.id, fullname=...), on
\* the answer of the existence check; then the reply, and the state returned
StartWrite ==
    LET u == tasks.user
        c == create_user(table, User(u, tasks.start.name, "active", clock))
        r == update_user(table, u, tasks.start.name, None, clock)
    IN  /\ tasks.kind = "start_join"
        /\ tasks.start.pc = "write"
        /\ IF ~tasks.start.exists
           THEN /\ table' = c.table
                /\ clock' = clock + 2
                /\ tasks' = [tasks EXCEPT !.start.result = c.ret, !.start.pc = "done"]
           ELSE /\ table' = r.table
                /\ clock' = clock + r.reads
                /\ tasks' = [tasks EXCEPT !.start.result = r.ret, !.start.pc = "done"]
        /\ adminConv' = Conversation(adminConv, u, MAIN_MENU)
        /\ RaceFrame

\* handle_chat_join_request: the flag, then approve_chat_join_request
JoinApprove(approve_ok) ==
    /\ tasks.kind = "start_join"
    /\ tasks.join.pc = "approve"
    /\ tasks' = [tasks EXCEPT !.join.approved = auto_approve /\ approve_ok,
                              !.join.pc = IF auto_approve /\ approve_ok
                                          THEN "user_exists" ELSE "done"]
    /\ UNCHANGED <<table, clock, adminConv>>
    /\ RaceFrame

\* handle_chat_join_request: db.user_exists(user_id)
JoinExists ==
    /\ tasks.kind = "start_join"
    /\ tasks.join.pc = "user_exists"
    /\ tasks' = [tasks EXCEPT !.join.exists = user_exists(table, tasks.user),
                              !.join.pc = "write"]
    /\ UNCHANGED <<table, clock, adminConv>>
    /\ RaceFrame

\* handle_chat_join_request: db.create_user(new_user) or
\* db.update_user(user_id, status="channel_joined"); then the welcome message
JoinWrite ==
    LET u == tasks.user
        c == create_user(table, User(u, tasks.join.name, "channel_joined", clock))
        r == update_user(table, u, None, "channel_joined", clock)
    IN  /\ tasks.kind = "start_join"
        /\ tasks.join.pc = "write"
        /\ IF ~tasks.join.exists
           THEN /\ table' = c.table
                /\ clock' = clock + 2
                /\ tasks' = [tasks EXCEPT !.join.result = c.ret, !.join.pc = "done"]
           ELSE /\ table' = r.table
                /\ clock' = clock + r.reads
                /\ tasks' = [tasks EXCEPT !.join.result = r.ret, !.join.pc = "done"]
        /\ UNCHANGED adminConv
        /\ RaceFrame

\* update_user, call k: the fields are collected and datetime.now() is read
UpdateNow(k) ==
    /\ tasks.kind = "updates"
    /\ tasks.calls[k].pc = "now"
    /\ clock' = clock + 1
    /\ tasks' = [tasks EXCEPT !.calls[k].now = clock + 1, !.calls[k].pc = "execute"]
    /\ UNCHANGED <<table, adminConv>>
    /\ RaceFrame

\* update_user, call k: the UPDATE statement is executed and committed
UpdateExecute(k) ==
    LET call == tasks.calls[k]
        r == update_user(table, tasks.user, call.fullname, call.status, call.now - 1)
    IN  /\ tasks.kind = "updates"
        /\ call.pc = "execute"
        /\ table' = r.table
        /\ tasks' = [tasks EXCEPT !.calls[k].result = r.ret, !.calls[k].pc = "done",
                                  !.order = Append(@, k)]
        /\ UNCHANGED <<clock, adminConv>>
        /\ RaceFrame

NextRace ==
    \/ StartExists
    \/ StartWrite
    \/ \E approve_ok \in BOOLEAN : JoinApprove(approve_ok)
    \/ JoinExists
    \/ JoinWrite
    \/ \E k \in {1, 2} : UpdateNow(k)
    \/ \E k \in {1, 2} : UpdateExecute(k)

SpecRace == InitRace /\ [][NextRace]_vars


(***************************************************************************)
(* Properties of the broadcast (under SpecBroadcast).                      *)
(***************************************************************************)
\* the recipients whose delivery failed: every one when the message has no send
\* primitive, else those whose send the platform refused
FailedSends(b) ==
    IF SendPrimitive(b.message) = "none" THEN Len(b.all_users)
    ELSE Cardinality({i \in DOMAIN b.sent : ~b.sent[i].ok})

\* C6: a broadcast over N recipients of which K fail completes with
\* success_count = N - K and failed_count = K, the counts add up to N, and every
\* recipient of a supported message is attempted, in snapshot order, also after
\* a failed one.
C6_BroadcastCounts ==
    bc.pc = "done" =>
        /\ bc.success_count = Len(bc.all_users) - FailedSends(bc)
        /\ bc.failed_count = FailedSends(bc)
        /\ bc.success_count + bc.failed_count = Len(bc.all_users)
        /\ SendPrimitive(bc.message) # "none" =>
              /\ Len(bc.sent) = Len(bc.all_users)
              /\ \A i \in DOMAIN bc.sent : bc.sent[i].to = bc.all_users[i]

\* a finished broadcast over three recipients whose first send failed and whose
\* later sends were made, one of them failing too
C6_Witness ==
    /\ bc.pc = "done"
    /\ Len(bc.all_users) = 3
    /\ Len(bc.sent) = 3
    /\ ~bc.sent[1].ok /\ bc.sent[2].ok /\ ~bc.sent[3].ok
    /\ bc.success_count = 1 /\ bc.failed_count = 2
    /\ last.out = <<"progress", "summary">>

\* C7: a broadcast of a message that matches none of the content kinds calls no
\* send primitive, goes through the whole snapshot, and ends with 0 successes
\* and N failures.
C7_UnsupportedAllFail ==
    (bc.pc \in {"sending", "done"} /\ SendPrimitive(bc.message) = "none") =>
        /\ bc.sent = <<>>
        /\ bc.success_count = 0
        /\ bc.failed_count = bc.i - 1
        /\ bc.pc = "done" => bc.failed_count = Len(bc.all_users)

\* a finished broadcast of an unsupported message over three recipients
C7_Witness ==
    /\ bc.pc = "done"
    /\ SendPrimitive(bc.message) = "none"
    /\ Len(bc.all_users) = 3
    /\ bc.failed_count = 3
    /\ last.out = <<"progress", "summary">>

(***************************************************************************)
(* Properties of the directory (under SpecDir).                            *)
(***************************************************************************)
\* C8: create on an id that has a record leaves the directory as it is (one
\* record of the id, with the fields of the first create) and reports failure; on
\* an absent id it adds one record with the given fields and reports success.
C8_CreateDuplicate ==
    [][\A id \in DirIds, name \in Names, status \in Statuses :
          DirCreate(id, name, status) =>
              /\ Cardinality(RowsOf(table', id)) = 1
              /\ IF user_exists(table, id)
                 THEN /\ ~last'.result
                      /\ table' = table
                 ELSE /\ last'.result
                      /\ get_user(table', id).fullname = name
                      /\ get_user(table', id).status = status
                      /\ \A i \in DOMAIN table : table'[i] = table[i]]_vars

\* a create of an id that has a record was refused
C8_Witness ==
    /\ last.callback = "create_user"
    /\ ~last.result
    /\ Cardinality(RowsOf(table, last.user)) = 1
    /\ <<get_user(table, last.user).fullname, get_user(table, last.user).status>> # last.out

\* C9: update of an existing record with only status leaves full_name and
\* created_at, with only full_name leaves status and created_at; both change
\* updated_at; no other record is modified.
C9_UpdateMerges ==
    [][\A id \in DirIds, fullname \in Names \cup {None}, status \in Statuses \cup {None} :
          (/\ DirUpdate(id, fullname, status)
           /\ user_exists(table, id)
           /\ (fullname = None) # (status = None)) =>
              /\ DOMAIN table' = DOMAIN table
              /\ \A i \in DOMAIN table :
                    IF table[i].telegram_id = id
                    THEN /\ table'[i].telegram_id = id
                         /\ table'[i].created_at = table[i].created_at
                         /\ table'[i].updated_at # table[i].updated_at
                         /\ fullname = None =>
                               /\ table'[i].fullname = table[i].fullname
                               /\ table'[i].status = status
                         /\ status = None =>
                               /\ table'[i].status = table[i].status
                               /\ table'[i].fullname = fullname
                    ELSE table'[i] = table[i]]_vars

\* an update with only status changed the status of a record of two, whose name
\* is not the default one and whose status was not the default one
C9_Witness ==
    /\ last.callback = "update_user"
    /\ last.result
    /\ last.out[1] = None
    /\ Len(table) = 2
    /\ get_user(table, last.user).status = last.out[2]
    /\ get_user(table, last.user).updated_at = clock

\* C10: update of an absent id, or with no field, reports failure and leaves the
\* directory as it is.
C10_UpdateFails ==
    [][\A id \in DirIds, fullname \in Names \cup {None}, status \in Statuses \cup {None} :
          (/\ DirUpdate(id, fullname, status)
           /\ (~user_exists(table, id) \/ (fullname = None /\ status = None))) =>
              /\ ~last'.result
              /\ table' = table]_vars

\* an update of an absent id, with a field, failed on a directory that is not empty
C10_Witness ==
    /\ last.callback = "update_user"
    /\ ~last.result
    /\ last.out # <<None, None>>
    /\ ~user_exists(table, last.user)
    /\ table # <<>>

\* an update with no field failed on an existing record
C10_WitnessNoField ==
    /\ last.callback = "update_user"
    /\ ~last.result
    /\ last.out = <<None, None>>
    /\ user_exists(table, last.user)


(***************************************************************************)
(* The funnel alone: one regular user sends commands, the check button and *)
(* every text.                                                             *)
(***************************************************************************)
TheUser == CHOOSE u \in Users \ ADMIN_IDS : TRUE

NextFunnel ==
    \/ \E cmd \in Commands : CommandUpdate(TheUser, cmd, AnyName)
    \/ CallbackUpdate(TheUser, "check_subscription", <<AnyOutcomes[1], AnyOutcomes[2]>>)
    \/ \E text \in Texts, lucky_number \in 0..4 :
          /\ userConv[TheUser] # GENERATING_CODE => lucky_number = 0
          /\ TextUpdate(TheUser, text, lucky_number)

SpecFunnel == InitAdmin /\ [][NextFunnel]_vars

(***************************************************************************)
(* Properties of the conversations (under Spec, the regular users' runs,   *)
(* and under SpecAdmin, the admins' runs).                                 *)
(***************************************************************************)
Regular == Users \ ADMIN_IDS

FunnelStates == {MAIN_MENU, CHECKING_SUBSCRIPTION, SENDING_ID, GENERATING_CODE}

AllAsciiDigits(text) == \A i \in DOMAIN text : text[i] \in AsciiDigits
HasNonDigit(text) == \E i \in DOMAIN text : text[i] \notin AsciiDigits \cup UnicodeDigits

\* C1: in SENDING_ID a text of exactly 10 decimal digits gives GENERATING_CODE
\* and the sender's status id_verified; a text of another length, or with a
\* character that is no digit, leaves the state SENDING_ID and the directory as
\* it is (the back label aside).
C1_IdSubmission ==
    [][\A u \in Users, text \in Texts \ {BackLabel} :
          (userConv[u] = SENDING_ID /\ TextUpdate(u, text, 0)) =>
              IF Len(text) = IdLen /\ AllAsciiDigits(text)
              THEN /\ userConv'[u] = GENERATING_CODE
                   /\ user_exists(table', u)
                   /\ get_user(table', u).status = "id_verified"
              ELSE IF Len(text) # IdLen \/ HasNonDigit(text)
              THEN /\ userConv'[u] = SENDING_ID
                   /\ table' = table
              ELSE TRUE]_vars

\* user u has no session and no directory record
Fresh(u) ==
    /\ adminConv[u] = END
    /\ userConv[u] = END
    /\ user_data[u] = NoUserData
    /\ ~user_exists(table, u)

\* C2: for a regular user with no session and no record, /start gives one record
\* with status active and the funnel state MAIN_MENU; from there the check button
\* gives CHECKING_SUBSCRIPTION; from there a catalog name gives SENDING_ID and is
\* held in the session; from there "1234567890" gives status id_verified and
\* GENERATING_CODE.
C2_Scenario ==
    [][\A u \in Regular :
          /\ (Fresh(u) /\ \E name \in Names : CommandUpdate(u, "start", name)) =>
                /\ Cardinality(RowsOf(table', u)) = 1
                /\ get_user(table', u).status = "active"
                /\ userConv'[u] = MAIN_MENU
          /\ (userConv[u] = MAIN_MENU
                /\ \E o \in Outcomes : CallbackUpdate(u, "check_subscription", <<o[1], o[2]>>)) =>
                userConv'[u] = CHECKING_SUBSCRIPTION
          /\ \A a \in AppNames :
                (userConv[u] = CHECKING_SUBSCRIPTION /\ TextUpdate(u, a, 0)) =>
                    /\ userConv'[u] = SENDING_ID
                    /\ "selected_app" \in user_data'[u].keys
                    /\ user_data'[u].selected_app = a
          /\ (userConv[u] = SENDING_ID /\ TextUpdate(u, IdDigits, 0)) =>
                /\ userConv'[u] = GENERATING_CODE
                /\ get_user(table', u).status = "id_verified"]_vars

\* C3: /cancel from a regular user in any funnel state ends the funnel
\* conversation and leaves no selected item in the session.
C3_CancelEndsFunnel ==
    [][\A u \in Regular :
          (userConv[u] \in FunnelStates /\ CommandUpdate(u, "cancel", AnyName)) =>
              /\ userConv'[u] = END
              /\ "selected_app" \notin user_data'[u].keys]_vars

\* C4: a user that is no admin never has the admin conversation in
\* SENDING_MESSAGE or CONFIRMING_MESSAGE, never holds a broadcast message in the
\* session, and never has the broadcast loop running or run.
C4_NonAdminNoBroadcast ==
    \A u \in Regular :
        /\ adminConv[u] \notin {SENDING_MESSAGE, CONFIRMING_MESSAGE}
        /\ "broadcast_message" \notin user_data[u].keys
        /\ bc.admin # u
        /\ bc.pc = "idle"

\* a regular user pressed the broadcast button of the admin menu and was refused
C4_Witness ==
    /\ last.user \in Regular
    /\ last.conv = "admin"
    /\ last.callback = "admin_send_message_start"
    /\ last.out = <<"denied">>
    /\ adminConv[last.user] = ADMIN_MENU

AdminTrack ==
    {"admin_panel", "admin_send_message_start", "admin_message_input",
     "confirm_and_send_message", "admin_view_stats", "admin_back_to_panel",
     "admin_cancel_send", "admin_close"}

\* C5: an admin-track handler run for a user that is no admin emits the
\* permission notice and nothing else, and returns ADMIN_MENU.
C5_EveryHandlerGated ==
    (last.user \in Regular /\ last.callback \in AdminTrack) =>
        /\ last.out = <<"denied">>
        /\ last.ret = ADMIN_MENU

(***************************************************************************)
(* Properties of the directory as the handlers use it (under Spec).        *)
(***************************************************************************)
\* C11: the directory never holds two records of one user id, and a record,
\* once created, keeps its place, its id and its created_at through every later
\* event: it is updated in place, never created again.
C11_OneRecordPerId ==
    /\ [](\A u \in Users : Cardinality(RowsOf(table, u)) <= 1)
    /\ [][\A i \in DOMAIN table :
             /\ i \in DOMAIN table'
             /\ table'[i].telegram_id = table[i].telegram_id
             /\ table'[i].created_at = table[i].created_at]_vars

\* a user whose record came from an approved join request sent /start: the
\* record was updated in place, after it was created
C11_Witness ==
    /\ last.callback = "start"
    /\ last.user \in Regular
    /\ Cardinality(RowsOf(table, last.user)) = 1
    /\ get_user(table, last.user).status = "channel_joined"
    /\ get_user(table, last.user).updated_at = clock
    /\ get_user(table, last.user).created_at + 1 < clock

\* C12: after /start from a user that is no admin the directory holds one record
\* of the sender, its status is active (whatever it was before), and the funnel
\* state is MAIN_MENU.
C12_StartUpserts ==
    [][\A u \in Regular :
          (\E name \in Names : CommandUpdate(u, "start", name)) =>
              /\ Cardinality(RowsOf(table', u)) = 1
              /\ get_user(table', u).status = "active"
              /\ userConv'[u] = MAIN_MENU]_vars

\* C15: the membership gate gives true exactly when the query of every channel
\* succeeds with a status that is neither left nor kicked; a status left or
\* kicked, or a failed query, of any channel gives false.
C15_MembershipGate ==
    [][\A u \in Regular, o \in Outcomes :
          (userConv[u] = MAIN_MENU /\ CallbackUpdate(u, "check_subscription", <<o[1], o[2]>>)) =>
              /\ last'.callback = "check_subscription"
              /\ last'.result = (\A c \in Channels : o[c] \notin {"left", "kicked", "error"})
              /\ (\E c \in Channels : o[c] \in {"left", "kicked", "error"}) => ~last'.result]_vars

\* the gate was run from the check button and gave false
C15_Witness ==
    /\ last.user \in Regular
    /\ last.callback = "check_subscription"
    /\ ~last.result

\* C16: in SENDING_ID a text is accepted exactly when it is 10 ASCII digits; any
\* other text (the back label aside) leaves the state SENDING_ID and the
\* directory as it is.
C16_AsciiDigitsOnly ==
    [][\A u \in Regular, text \in Texts \ {BackLabel} :
          (userConv[u] = SENDING_ID /\ TextUpdate(u, text, 0)) =>
              IF Len(text) = IdLen /\ AllAsciiDigits(text)
              THEN userConv'[u] = GENERATING_CODE
              ELSE /\ userConv'[u] = SENDING_ID
                   /\ table' = table]_vars

\* C20: with auto-approve on, a join request whose approval succeeds leaves one
\* record of the requester with status channel_joined: a new record with the
\* requester's name when the id was absent, else the old record in its place
\* with its name and created_at; the other records are untouched; and this is so
\* whether or not the welcome message could be sent.
C20_JoinApproved ==
    [][\A u \in Users, name \in Names, welcome_ok \in BOOLEAN :
          (auto_approve /\ JoinRequest(u, name, TRUE, welcome_ok)) =>
              /\ Cardinality(RowsOf(table', u)) = 1
              /\ get_user(table', u).status = "channel_joined"
              /\ Head(last'.out) = "approved"
              /\ IF user_exists(table, u)
                 THEN /\ DOMAIN table' = DOMAIN table
                      /\ get_user(table', u).fullname = get_user(table, u).fullname
                      /\ get_user(table', u).created_at = get_user(table, u).created_at
                 ELSE /\ Len(table') = Len(table) + 1
                      /\ get_user(table', u).fullname = name
              /\ \A i \in DOMAIN table : table[i].telegram_id # u => table'[i] = table[i]]_vars

\* a join request of a user with a record was approved, the welcome message
\* failed, and the record has the new status
C20_Witness ==
    /\ auto_approve
    /\ last.callback = "handle_chat_join_request"
    /\ last.out = <<"approved">>
    /\ Cardinality(RowsOf(table, last.user)) = 1
    /\ get_user(table, last.user).status = "channel_joined"
    /\ get_user(table, last.user).updated_at = clock
    /\ get_user(table, last.user).created_at + 1 < clock

(***************************************************************************)
(* Properties of the admin console (under SpecConsole) and of the confirm  *)
(* action (under SpecBroadcast).                                           *)
(***************************************************************************)
PressedBy(a, data) == CallbackUpdate(a, data, <<AnyOutcomes[1], AnyOutcomes[2]>>)

\* C13: in SENDING_MESSAGE a message of every content kind the broadcast loop
\* dispatches is captured in the admin's session, as it came, and the state
\* becomes CONFIRMING_MESSAGE.
C13_CaptureEveryKind ==
    [][\A a \in ADMIN_IDS, attrs \in AllShapes :
          (/\ adminConv[a] = SENDING_MESSAGE
           /\ SendPrimitive(attrs) # "none"
           /\ MediaUpdate(a, attrs)) =>
              /\ adminConv'[a] = CONFIRMING_MESSAGE
              /\ "broadcast_message" \in user_data'[a].keys
              /\ user_data'[a].broadcast_message = attrs]_vars

\* C17: for an admin, /start with no admin conversation gives ADMIN_MENU and
\* leaves the directory as it is; in ADMIN_MENU the broadcast button gives
\* SENDING_MESSAGE, the stats button VIEWING_STATS, the close button the end of
\* the conversation; in SENDING_MESSAGE /cancel gives ADMIN_MENU; in
\* VIEWING_STATS the back button gives ADMIN_MENU and the close button the end.
C17_AdminTable ==
    [][\A a \in ADMIN_IDS :
          /\ (adminConv[a] = END /\ CommandUpdate(a, "start", AnyName)) =>
                (adminConv'[a] = ADMIN_MENU /\ table' = table)
          /\ (adminConv[a] = ADMIN_MENU /\ PressedBy(a, "admin_send_message")) =>
                adminConv'[a] = SENDING_MESSAGE
          /\ (adminConv[a] = ADMIN_MENU /\ PressedBy(a, "admin_view_stats")) =>
                adminConv'[a] = VIEWING_STATS
          /\ (adminConv[a] = ADMIN_MENU /\ PressedBy(a, "admin_close")) =>
                adminConv'[a] = END
          /\ (adminConv[a] = SENDING_MESSAGE /\ CommandUpdate(a, "cancel", AnyName)) =>
                adminConv'[a] = ADMIN_MENU
          /\ (adminConv[a] = VIEWING_STATS /\ PressedBy(a, "admin_back_to_panel")) =>
                adminConv'[a] = ADMIN_MENU
          /\ (adminConv[a] = VIEWING_STATS /\ PressedBy(a, "admin_close")) =>
                adminConv'[a] = END]_vars

\* an admin closed the console, over a directory that is not empty
C17_Witness ==
    /\ last.user \in ADMIN_IDS
    /\ last.conv = "admin"
    /\ last.callback = "admin_close"
    /\ last.out = <<"closed">>
    /\ adminConv[last.user] = END
    /\ table # <<>>

\* C18: in CONFIRMING_MESSAGE the cancel button gives ADMIN_MENU, leaves no
\* broadcast message in the admin's session, and no send is made.
C18_CancelDiscards ==
    [][\A a \in ADMIN_IDS :
          (adminConv[a] = CONFIRMING_MESSAGE /\ PressedBy(a, "admin_cancel_send")) =>
              /\ adminConv'[a] = ADMIN_MENU
              /\ "broadcast_message" \notin user_data'[a].keys
              /\ bc'.pc = "idle"
              /\ bc'.sent = <<>>]_vars

\* what the confirm action does over a directory that is not empty: the
\* progress notice and nothing else is out while the loop runs, the state is
\* stored only after the loop, no send is made before the notice; after the
\* last recipient the summary follows, with counts over the whole snapshot, and
\* the state is ADMIN_MENU
ConfirmRuns ==
    /\ bc.pc = "sending" =>
          /\ last.callback = "confirm_and_send_message"
          /\ ~last.returned
          /\ last.out = <<"progress">>
          /\ adminConv[bc.admin] = CONFIRMING_MESSAGE
    /\ bc.pc = "done" =>
          /\ last.callback = "confirm_and_send_message"
          /\ last.returned
          /\ last.out = <<"progress", "summary">>
          /\ bc.i = Len(bc.all_users) + 1
          /\ bc.success_count + bc.failed_count = Len(bc.all_users)
          /\ adminConv[bc.admin] = ADMIN_MENU
    /\ bc.pc = "idle" => bc.sent = <<>>

\* C19, as claimed: the confirm action, over a directory of any size, emits the
\* progress notice before the first send and the summary after the last, and
\* leaves the state ADMIN_MENU.
C19_ConfirmAnySize ==
    /\ ConfirmRuns
    /\ (last.callback = "confirm_and_send_message" /\ last.returned) =>
          /\ bc.pc = "done"
          /\ Len(bc.all_users) = Len(table)
          /\ last.out = <<"progress", "summary">>
          /\ adminConv[last.user] = ADMIN_MENU

\* C19, amended: over a directory that is not empty the confirm action emits
\* the progress notice before the first send and the summary after the last,
\* and leaves the state ADMIN_MENU; over an empty directory it emits the notice
\* that there is nobody to send to, neither progress notice nor summary, and
\* leaves the state ADMIN_MENU.
C19_ConfirmNonEmpty ==
    /\ ConfirmRuns
    /\ (last.callback = "confirm_and_send_message" /\ last.returned) =>
          /\ adminConv[last.user] = ADMIN_MENU
          /\ IF table # <<>>
             THEN /\ bc.pc = "done"
                  /\ Len(bc.all_users) = Len(table)
                  /\ last.out = <<"progress", "summary">>
             ELSE /\ bc.pc = "idle"
                  /\ last.out = <<"no_users">>

\* a broadcast over two recipients has finished: both sends made, the summary
\* out, the admin back in the menu
C19_Witness ==
    /\ bc.pc = "done"
    /\ Len(bc.all_users) = 2
    /\ Len(bc.sent) = 2
    /\ bc.sent[1].ok /\ bc.sent[2].ok
    /\ bc.success_count = 2
    /\ last.out = <<"progress", "summary">>
    /\ adminConv[bc.admin] = ADMIN_MENU

(***************************************************************************)
(* Properties of the stats view (under SpecStats).                         *)
(***************************************************************************)
\* the records created on the calendar day of now
OnDayOf(all_users, now) ==
    {i \in DOMAIN all_users : all_users[i].created_at \div HoursPerDay = now \div HoursPerDay}

\* the records created in the 7 days before now
InTrailingWeek(all_users, now) ==
    {i \in DOMAIN all_users : now - all_users[i].created_at <= WeekDays * HoursPerDay}

ChannelJoined(all_users) == {i \in DOMAIN all_users : all_users[i].status = "channel_joined"}

\* C14: the stats view counts as today the users created on the calendar day of
\* the view, as this week the users created in the 7 days before it, and as the
\* two channel figures the same users restricted to status channel_joined.
C14_StatsWindows ==
    [][(ViewStats /\ table # <<>>) =>
          last'.out = << Cardinality(OnDayOf(table, clock)),
                         Cardinality(InTrailingWeek(table, clock)),
                         Cardinality(OnDayOf(table, clock) \cap ChannelJoined(table)),
                         Cardinality(InTrailingWeek(table, clock) \cap ChannelJoined(table)) >>]_vars

(***************************************************************************)
(* Properties of interleaved handlers (under SpecRace).                    *)
(***************************************************************************)
\* what a record says of its user, the timestamps aside
Fields(rec) == <<rec.telegram_id, rec.fullname, rec.status>>

\* the directory after the two handlers ran one after the other, from the
\* directory t0 of the race: /start first, or the join request first
SerialStartJoin ==
    LET s == start(tasks.user, tasks.start.name, tasks.t0, clock, NoUserData)
    IN  handle_chat_join_request(tasks.user, tasks.join.name, tasks.join.approved, TRUE,
                                 auto_approve, s.table, clock + s.reads).table

SerialJoinStart ==
    LET j == handle_chat_join_request(tasks.user, tasks.join.name, tasks.join.approved, TRUE,
                                      auto_approve, tasks.t0, clock)
    IN  start(tasks.user, tasks.start.name, j.table, clock + j.reads, NoUserData).table

StartJoinDone ==
    /\ tasks.kind = "start_join"
    /\ tasks.start.pc = "done"
    /\ tasks.join.pc = "done"

\* C21: when /start and an approved join request of a user without a record
\* interleave call by call, the user ends with one record, and it is the record
\* one of the two serial orders of the handlers gives (timestamps aside):
\* neither handler's write is lost.
C21_SerialOutcome ==
    (StartJoinDone /\ ~user_exists(tasks.t0, tasks.user) /\ tasks.join.approved) =>
        /\ Cardinality(RowsOf(table, tasks.user)) = 1
        /\ Fields(get_user(table, tasks.user)) \in
              {Fields(get_user(SerialStartJoin, tasks.user)),
               Fields(get_user(SerialJoinStart, tasks.user))}

UpdatesDone ==
    /\ tasks.kind = "updates"
    /\ tasks.calls[1].pc = "done"
    /\ tasks.calls[2].pc = "done"

\* C22: two interleaved updates of an existing id, one with only full_name and
\* one with only status, leave the record with both new values, its id and
\* created_at as they were, and the updated_at of the update that committed
\* last; both report success and no other record changes.
C22_ConcurrentUpdatesMerge ==
    (UpdatesDone /\ user_exists(tasks.t0, tasks.user)) =>
        /\ tasks.calls[1].result /\ tasks.calls[2].result
        /\ DOMAIN table = DOMAIN tasks.t0
        /\ \A i \in DOMAIN table :
              IF table[i].telegram_id = tasks.user
              THEN /\ table[i].fullname = tasks.calls[1].fullname
                   /\ table[i].status = tasks.calls[2].status
                   /\ table[i].created_at = tasks.t0[i].created_at
                   /\ table[i].updated_at = tasks.calls[tasks.order[2]].now
              ELSE table[i] = tasks.t0[i]

\* both updates are done; the one that read the clock last committed first, and
\* both changed a field of a directory of two
C22_Witness ==
    /\ UpdatesDone
    /\ Len(table) = 2
    /\ tasks.order = <<2, 1>>
    /\ tasks.calls[1].now < tasks.calls[2].now
    /\ get_user(tasks.t0, tasks.user).fullname # tasks.calls[1].fullname
    /\ get_user(tasks.t0, tasks.user).status # tasks.calls[2].status
    /\ get_user(table, tasks.user).updated_at = tasks.calls[1].now

(***************************************************************************)
(* Properties of the funnel's handlers (under Spec and SpecFunnel) and of  *)
(* the join requests (under Spec).                                         *)
(***************************************************************************)
\* C23: the check button pressed in MAIN_MENU always takes the success path:
\* whatever the membership gate gives (member, no member, failed query), the
\* catalog prompt is emitted and the funnel state becomes CHECKING_SUBSCRIPTION,
\* never MAIN_MENU.
C23_CheckAlwaysSucceeds ==
    [][\A u \in Regular, o \in Outcomes :
          (userConv[u] = MAIN_MENU /\ CallbackUpdate(u, "check_subscription", <<o[1], o[2]>>)) =>
              /\ last'.callback = "check_subscription"
              /\ last'.out = <<"catalog">>
              /\ last'.ret = CHECKING_SUBSCRIPTION
              /\ userConv'[u] = CHECKING_SUBSCRIPTION
              /\ table' = table]_vars

\* the gate gave false and the check button still gave the catalog
C23_Witness ==
    /\ last.user \in Regular
    /\ last.callback = "check_subscription"
    /\ ~last.result
    /\ last.out = <<"catalog">>
    /\ userConv[last.user] = CHECKING_SUBSCRIPTION

TextStates == {CHECKING_SUBSCRIPTION, SENDING_ID, GENERATING_CODE}

\* C24: the funnel's transitions on a text.  In CHECKING_SUBSCRIPTION a catalog
\* name is stored in the session and gives SENDING_ID, the help label and every
\* other text keep the state and the stored selection; in SENDING_ID and in
\* GENERATING_CODE the back label gives CHECKING_SUBSCRIPTION (in SENDING_ID
\* before the text is tested as an identifier: no invalid-identifier notice);
\* in GENERATING_CODE every other text keeps the state and emits a result with
\* one of the 5 prefixes; the directory is written by no transition but the one
\* from SENDING_ID to GENERATING_CODE.
C24_FunnelTable ==
    [][\A u \in Regular, text \in Texts :
       \A lucky_number \in IF userConv[u] = GENERATING_CODE THEN 0..4 ELSE {0} :
          (userConv[u] \in TextStates /\ TextUpdate(u, text, lucky_number)) =>
              /\ last'.conv = "user"
              /\ adminConv' = adminConv
              /\ userConv[u] = CHECKING_SUBSCRIPTION =>
                    IF text \in AppNames
                    THEN /\ userConv'[u] = SENDING_ID
                         /\ "selected_app" \in user_data'[u].keys
                         /\ user_data'[u].selected_app = text
                    ELSE /\ userConv'[u] = CHECKING_SUBSCRIPTION
                         /\ user_data'[u] = user_data[u]
                         /\ last'.out = IF text = HelpLabel THEN <<"help", "catalog">> ELSE <<>>
              /\ userConv[u] = SENDING_ID =>
                    /\ user_data'[u] = user_data[u]
                    /\ IF text = BackLabel
                       THEN userConv'[u] = CHECKING_SUBSCRIPTION /\ last'.out = <<"catalog">>
                       ELSE userConv'[u] \in {SENDING_ID, GENERATING_CODE}
              /\ userConv[u] = GENERATING_CODE =>
                    /\ user_data'[u] = user_data[u]
                    /\ IF text = BackLabel
                       THEN userConv'[u] = CHECKING_SUBSCRIPTION /\ last'.out = <<"catalog">>
                       ELSE /\ userConv'[u] = GENERATING_CODE
                            /\ Len(last'.out) = 2
                            /\ last'.out[1] = "result"
                            /\ last'.out[2] = Numbers[lucky_number + 1]
                            /\ Cardinality({Numbers[i] : i \in DOMAIN Numbers}) = 5
              /\ table' # table =>
                    (userConv[u] = SENDING_ID /\ userConv'[u] = GENERATING_CODE)]_vars

\* the back label was sent in SENDING_ID, with an item selected: the catalog
\* came back and the selection stayed
C24_Witness ==
    /\ last.user \in Regular
    /\ last.callback = "send_id_message"
    /\ last.out = <<"catalog">>
    /\ userConv[last.user] = CHECKING_SUBSCRIPTION
    /\ user_data[last.user].selected_app \in AppNames

\* C25: a join request writes the directory only after the platform approved
\* it: with auto-approve off, or when the approval call fails, the directory is
\* as it was and neither the approval nor the welcome message is emitted.
C25_JoinWritesAfterApproval ==
    [][\A u \in Users, name \in Names, approve_ok \in BOOLEAN, welcome_ok \in BOOLEAN :
          (JoinRequest(u, name, approve_ok, welcome_ok) /\ (~auto_approve \/ ~approve_ok)) =>
              /\ table' = table
              /\ clock' = clock
              /\ last'.out = <<>>]_vars

\* with auto-approve on, the approval of a request of a user without a record
\* failed: the directory, which is not empty, has no record of that user
C25_Witness ==
    /\ auto_approve
    /\ last.callback = "handle_chat_join_request"
    /\ last.out = <<>>
    /\ table # <<>>
    /\ ~user_exists(table, last.user)

(***************************************************************************)
(* Properties of the broadcast over a directory that is written under it   *)
(* (under SpecSnapshot).                                                   *)
(***************************************************************************)
\* the user ids of the directory, in the order get_all_users gives them
SnapshotOf(t) == [i \in DOMAIN get_all_users(t) |-> get_all_users(t)[i].telegram_id]

\* C26: a confirmed broadcast takes the ids of the directory once, when it is
\* confirmed, and passes over them in that order, one iteration and (for a
\* message the loop can send) one send attempt for each, failed or not; a
\* record added to the directory after the confirmation gets no attempt; and
\* no step of the broadcast writes the directory.
C26_OneAttemptPerSnapshotId ==
    /\ []((bc.pc \in {"sending", "done"} /\ SendPrimitive(bc.message) # "none") =>
             /\ Len(bc.sent) = bc.i - 1
             /\ \A k \in DOMAIN bc.sent : bc.sent[k].to = bc.all_users[k])
    /\ [](bc.pc = "done" => bc.i = Len(bc.all_users) + 1)
    /\ [][/\ CallbackUpdate(TheAdmin, "confirm_send_message", <<>>) =>
                /\ table' = table
                /\ bc'.pc = "sending" =>
                      (bc'.all_users = SnapshotOf(table) /\ bc'.i = 1 /\ bc'.sent = <<>>)
          /\ \A ok \in BOOLEAN :
                BroadcastSend(ok) =>
                    /\ table' = table
                    /\ bc'.all_users = bc.all_users
                    /\ bc'.i = bc.i + 1
          /\ BroadcastFinish => (table' = table /\ bc'.all_users = bc.all_users /\ bc'.sent = bc.sent)
          /\ SnapshotJoin => bc' = bc]_vars

\* a broadcast over two or more ids is done: a send failed and was not made
\* again, and the record added to the directory after the confirmation got no
\* attempt
C26_Witness ==
    /\ bc.pc = "done"
    /\ Len(bc.all_users) >= 2
    /\ Len(bc.sent) = Len(bc.all_users)
    /\ \E k \in DOMAIN bc.sent : ~bc.sent[k].ok
    /\ user_exists(table, NewId)
    /\ \A k \in DOMAIN bc.sent : bc.sent[k].to # NewId
    /\ Len(table) = Len(bc.all_users) + 1

(***************************************************************************)
(* Properties of the two conversation handlers together (under Spec).      *)
(***************************************************************************)
\* C27: a user holds a state in at most one track: a user that is no admin
\* never has a state in the admin conversation, an admin never has one in the
\* funnel conversation, and the state start returns for a user that is no admin
\* is kept by the funnel conversation.
C27_OneTrackPerUser ==
    /\ \A u \in Regular : adminConv[u] = END
    /\ \A a \in ADMIN_IDS : userConv[a] = END
    /\ (last.callback = "start" /\ last.user \in Regular) => last.conv = "user"

\* the states of the two conversations of user u after one more update: the
\* first handler that accepts it runs, and its conversation keeps the state the
\* callback returns (the three updates below return a state that depends on
\* neither the directory nor the session)
ConvStep(c, u, ev) ==
    LET route == Route(c.admin, c.user, ev)
        r == Run(route.callback, u, ev, AnyName, <<AnyOutcomes[1], AnyOutcomes[2]>>, 0,
                 table, clock, user_data[u])
    IN  IF route.conv = "admin" THEN [c EXCEPT !.admin = r.ret]
        ELSE IF route.conv = "user" THEN [c EXCEPT !.user = r.ret]
        ELSE c

\* the conversations of user u after /cancel, /start and the check button
AfterCancelStartCheck(u) ==
    ConvStep(ConvStep(ConvStep([admin |-> adminConv[u], user |-> userConv[u]],
                               u, CommandEv("cancel")),
                      u, CommandEv("start")),
             u, CallbackEv("check_subscription"))

\* C28: for a user that is no admin, in any funnel state, the updates /cancel,
\* /start and the check button, in this order, end with the funnel state
\* CHECKING_SUBSCRIPTION.
C28_CancelStartCheck ==
    \A u \in Regular :
        userConv[u] \in FunnelStates =>
            AfterCancelStartCheck(u).user = CHECKING_SUBSCRIPTION

(***************************************************************************)
(* The captured message of the admin console (under SpecConsole).          *)
(***************************************************************************)
\* C29: while an admin's conversation is in CONFIRMING_MESSAGE the admin's
\* session holds a captured message, and the confirm handler never takes its
\* "message not found" branch.
C29_ConfirmingHoldsMessage ==
    /\ \A a \in ADMIN_IDS :
          adminConv[a] = CONFIRMING_MESSAGE =>
              /\ "broadcast_message" \in user_data[a].keys
              /\ user_data[a].broadcast_message \cap CaptureKinds # {}
    /\ last.callback = "confirm_and_send_message" => last.out # <<"not_found">>

\* the admin pressed the confirm button in CONFIRMING_MESSAGE: the handler
\* found the captured message and is sending it
C29_Witness ==
    /\ last.user \in ADMIN_IDS
    /\ last.callback = "confirm_and_send_message"
    /\ adminConv[last.user] = CONFIRMING_MESSAGE
    /\ bc.pc = "sending"
    /\ bc.message = user_data[last.user].broadcast_message
    /\ bc.message \cap CaptureKinds # {}

==========================================================================
